---- MODULE Spec2Model ----
(***************************************************************************)
(* DailyHotApi-go: the tiered cache (internal/cache/cache.go) and the      *)
(* cache-aside fetch orchestrator (internal/service/fetcher.go).           *)
(*                                                                         *)
(* Time is counted in minutes.  L1 is BigCache: one LifeWindow for every   *)
(* entry (cfg.Cache.DefaultExpire), entries stamped at the time of the     *)
(* write, Get returns whatever entry the shard holds, and entries older    *)
(* than LifeWindow are removed by the CleanWindow ticker.  L2 is Redis:    *)
(* a per-key expiration, enforced by the store.                            *)
(***************************************************************************)
EXTENDS Integers, Sequences, FiniteSets, Bags, TLC

\* ---------------------------------------------------------------- bounds
MaxTicks == 2          \* clock steps explored
RetryBound == 4        \* largest RetryConfig.MaxRetries explored
MaxPooled == 2         \* containers kept in a pool at a time

\* ------------------------------------------------------ program constants
WarmConcurrency == 3   \* capacity of the warmup semaphore
DefaultExpire == 5     \* cache.default_expire, minutes
CleanupInterval == 10  \* cache.cleanup_interval, minutes

TickStep == DefaultExpire              \* clock granularity of the model
MaxTime == MaxTicks * TickStep

Keys == {"k1"}
TTLs == {0, 3 * DefaultExpire}   \* cacheDuration arguments: the default, and one that outlasts a cleanup
Platform == "p"

\* ------------------------------------------------------------ HotData
\* An integer hi * Limb + lo with 0 <= lo < Limb (an int64 is wider than the
\* integers of the model); the integers explored are below 2^54.
Limb == 2^27
Num(hi, lo) == [hi |-> hi, lo |-> lo]
Zero == Num(0, 0)

\* hi of 2^53: below it every integer is a float64.
Mantissa == 2^26

\* models.HotData restricted to a string field (ID) and an interface{}
\* field (Hot): nil (an adapter that never sets it), an int64 (5, and
\* 2^53 + 1), a float64 (only ever produced by decoding), the float64 NaN,
\* or a string.
HotVals == { [t |-> "nil", n |-> Zero], [t |-> "int", n |-> Num(0, 5)],
             [t |-> "int", n |-> Num(Mantissa, 1)], [t |-> "nan", n |-> Zero],
             [t |-> "string", n |-> Zero] }
HotData == [id : {"1"}, hot : HotVals]

\* The record lists a data source returns: empty, or one record.
Lists == { <<>> } \cup { <<r>> : r \in HotData }

\* ------------------------------------------------------------ JSON
\* encoding/json on []models.HotData.  Hot carries `omitempty`: a nil
\* interface is left out, a number is written as a JSON number whatever
\* its Go type (an integral float64 of this size prints its digits), a
\* string as a JSON string.
EncodeHot(h) ==
    IF h.t = "nil" THEN [t |-> "absent", n |-> Zero]
    ELSE IF h.t = "string" THEN [t |-> "str", n |-> Zero]
    ELSE [t |-> "num", n |-> h.n]
EncodeItem(r) == [id |-> r.id, hot |-> EncodeHot(r.hot)]

\* json.Marshal refuses a NaN float (UnsupportedValueError).
MarshalOk(list) == \A i \in 1..Len(list) : list[i].hot.t # "nan"

\* json.Marshal(hotDataList)
Marshal(list) == [kind |-> "array", items |-> [i \in 1..Len(list) |-> EncodeItem(list[i])]]

\* The float64 nearest to the integer (strconv.ParseFloat): itself below
\* 2^53; from 2^53 to 2^54 the floats are the even integers, and an odd
\* integer goes to the neighbour whose half is even.
ToFloat64(n) ==
    IF n.hi < Mantissa \/ n.lo % 2 = 0 THEN n
    ELSE LET lo == IF ((n.lo - 1) \div 2) % 2 = 0 THEN n.lo - 1 ELSE n.lo + 1
         IN  IF lo = Limb THEN Num(n.hi + 1, 0) ELSE Num(n.hi, lo)

\* A faulty DecodeHot: the number is lost on decoding.
DecodeHot_LosesNumber(j) == [t |-> "nil", n |-> Zero]

\* Decoding into interface{}: a JSON number becomes a float64, a JSON
\* string a string, a missing key leaves the nil interface.
DecodeHot(j) ==
    IF j.t = "absent" THEN [t |-> "nil", n |-> Zero]
    ELSE IF j.t = "str" THEN [t |-> "string", n |-> Zero]
    ELSE [t |-> "float", n |-> ToFloat64(j.n)]
DecodeItem(j) == [id |-> j.id, hot |-> DecodeHot(j.hot)]

\* json.Unmarshal(cachedData, &hotDataList): an array decodes to its
\* records, null decodes to the nil slice, anything else is an error.
Unmarshal(b) ==
    IF b.kind = "array" THEN [ok |-> TRUE, list |-> [i \in 1..Len(b.items) |-> DecodeItem(b.items[i])]]
    ELSE IF b.kind = "null" THEN [ok |-> TRUE, list |-> <<>>]
    ELSE [ok |-> FALSE, list |-> <<>>]

NullBytes == [kind |-> "null", items |-> <<>>]        \* the JSON text null
GarbageBytes == [kind |-> "garbage", items |-> <<>>]  \* not JSON at all
NoBytes == [kind |-> "none", items |-> <<>>]

\* What another writer of the shared Redis may leave under a key: a record
\* list, the text null, or bytes that are not JSON.
ForeignBytes == { Marshal(<< [id |-> "1", hot |-> [t |-> "int", n |-> Num(0, 5)]] >>), NullBytes, GarbageBytes }

\* ------------------------------------------------------------ state
VARIABLES
    now,        \* the clock, minutes since NewManager
    l1Enabled,  \* Manager.l1Enabled
    l2Enabled,  \* Manager.l2Enabled
    l1,         \* BigCache: key -> [val, at]
    l2,         \* Redis: key -> [val, exp]
    l2Up,       \* Redis answers commands
    closed,     \* Manager.Close was called
    cleanedAt,  \* time of the last run of BigCache's cleanup ticker
    fresh       \* history: key -> the fetch that populated a key absent from the cache

\* FetchWithRetry (internal/routes/retry.go): one call in progress
VARIABLES
    config,     \* the RetryConfig argument
    attempt,    \* the loop variable
    lastErr,    \* the local lastErr
    rpc,        \* position of the call: "idle", "call", "wait", "done"
    ctxDone,    \* ctx.Done() is closed
    plan,       \* what client.Get returns at its n-th invocation, n = 1, 2, ...
    calls,      \* history: invocations of client.Get so far
    waits,      \* history: the delays waited between attempts, seconds
    ret         \* the returned (body, error)

\* main and warmUpCacheAsync (cmd/server: the main package)
VARIABLES
    boot,       \* the configuration and the environment at startup
    mainPc,     \* position of main
    l2Touched,  \* history: a command was sent through the Redis client
    warmPc,     \* position of warmUpCacheAsync
    sem,        \* len(semaphore)
    wpc,        \* path -> position of the goroutine warming it
    attempts,   \* history: path -> number of warmup GETs issued
    wlast,      \* history: outcome of the warmup GET that returned last
    starts,     \* history: number of warmUpCacheAsync goroutines started
    hlast       \* history: the last two requests served by a platform handler

cacheVars == <<now, l1Enabled, l2Enabled, l1, l2, l2Up, closed, cleanedAt, fresh>>
retryVars == <<config, attempt, lastErr, rpc, ctxDone, plan, calls, waits, ret>>
mainVars == <<boot, mainPc, l2Touched>>
warmVars == <<warmPc, sem, wpc, attempts, wlast, starts>>

\* ObjectPool (internal/pool), and callers running concurrently on the manager
VARIABLES
    bufPool,    \* responseBufferPool: the bag of pooled byte slices
    listPool,   \* hotDataListPool: the bag of pooled record slices
    plast,      \* history: the last pool operation and what it returned
    callers,    \* caller -> the operation it runs on the manager and its position
    promo       \* history: key -> the Redis expiry of the entry copied into BigCache

poolVars == <<bufPool, listPool, plast>>

vars == <<cacheVars, retryVars, mainVars, warmVars, hlast, poolVars, callers, promo>>

NoL1 == [val |-> NoBytes, at |-> 0]     \* no BigCache entry under the key
NoL2 == [val |-> NoBytes, exp |-> 0]    \* no Redis key
\* No populating fetch on record.  A record keeps the list, the end of the
\* ttl counted from the return of the call (the time of its Redis SET when
\* L2 is in use), the time of its BigCache write, and whether BigCache
\* refused the entry and whether the Redis SET failed.
NoFresh == [set |-> FALSE, list |-> <<>>, exp |-> 0, l1At |-> 0, l1Lost |-> FALSE, l2Lost |-> FALSE]

NoErr == [kind |-> "nil", platform |-> "", cause |-> ""]
NilResp == [nil |-> TRUE, code |-> 0, total |-> 0, fromCache |-> FALSE, data |-> <<>>]

\* models.SuccessResponse / SimpleSuccessResponse
SimpleSuccessResponse(data, fromCache) ==
    [nil |-> FALSE, code |-> 200, total |-> Len(data), fromCache |-> fromCache, data |-> data]

\* ------------------------------------------------------------ the tiers
\* bigcache.Set(key, data): the entry is stamped with the current time.
L1Set(c1, k, value, t) == [c1 EXCEPT ![k] = [val |-> value, at |-> t]]

\* bigcache.Get(key): the entry under the key, whatever its age.
L1Has(c1, k) == c1[k] # NoL1

\* bigcache.Delete(key)
L1Delete(c1, k) == [c1 EXCEPT ![k] = NoL1]

\* redis SET key value EX expiration
L2Set(c2, k, value, expiration, t) == [c2 EXCEPT ![k] = [val |-> value, exp |-> t + expiration]]

\* redis GET key: redis.Nil once the key's expiration has passed.
L2Has(c2, k, t) == c2[k] # NoL2 /\ t < c2[k].exp

\* redis DEL key
L2Delete(c2, k) == [c2 EXCEPT ![k] = NoL2]

\* bigcache.Set(key, data) that fails (the entry is larger than a shard):
\* the shard unlinks the previous entry of the key before the push, and the
\* push that fails has emptied the shard.  Nothing is left under the key.
L1Refused(c1, k) == [c1 EXCEPT ![k] = NoL1]

\* bigcache.Set(key, data), accepted or not
L1Write(c1, k, value, t, ok) == IF ok THEN L1Set(c1, k, value, t) ELSE L1Refused(c1, k)

\* The expiration Manager.Set hands to Redis.
Expiration(expiration) == IF expiration = 0 THEN DefaultExpire ELSE expiration

\* The Redis client gets an answer: Redis is reachable and the client was
\* not closed.
Answers == l2Up /\ ~closed

\* ------------------------------------------------------------ calls
\* A data source (FetchFunc) outcome: an error, or a record list.
Sources == { [err |-> "e1", list |-> <<>>] } \cup { [err |-> "", list |-> l] : l \in Lists }

NoSet == [calls |-> 0, l1Tried |-> FALSE, l1Ok |-> FALSE, l1At |-> 0,
          l2Tried |-> FALSE, l2Ok |-> FALSE, errNil |-> TRUE]
NoGet == [tier |-> "none", l2Reads |-> 0, promoWrites |-> 0, promoOk |-> FALSE, corrupt |-> FALSE]

\* What is known of a call.  op, key, ttl: the call; at: the time of its
\* latest tier read; l1Had, l2Had, up, pre: what the tiers held, whether Redis
\* answered and the populating fetch on record when the lookup read them;
\* get, set: what Manager.Get and Manager.Set (for a Delete: Manager.Delete)
\* did (set.l1At: the time of Manager.Set's BigCache write); src, srcCalls: the data source; resp, err: the return values;
\* disturbed: the environment changed while the call ran; prev: what the
\* call made just before it on the same goroutine came to.
NoPrev == [kind |-> "none", key |-> ""]

Idle == [op |-> "none", key |-> "", at |-> 0, ttl |-> 0, src |-> [err |-> "", list |-> <<>>],
         up |-> FALSE, l1Had |-> FALSE, l2Had |-> FALSE, pre |-> NoFresh,
         resp |-> NilResp, err |-> NoErr, srcCalls |-> 0, set |-> NoSet, get |-> NoGet,
         disturbed |-> FALSE, prev |-> NoPrev]

\* A goroutine that runs no call.  pc: the position in the call; val: the
\* bytes it holds (read from a tier, or to be written); exp: the expiry of
\* the Redis entry it read; rec: what is known of the call.
NoCall == [pc |-> "done", val |-> NoBytes, exp |-> 0, rec |-> Idle]

CacheMiss == [kind |-> "miss", platform |-> "", cause |-> ""]

\* What a call came to, for the call that follows it: its data source
\* failed ("error"), its data source returned no record ("empty"), it
\* was answered by L2 and the copy into L1 was accepted ("promoted").
\* Nothing is kept of a call the environment disturbed.
CameTo(r) ==
    CASE r.disturbed -> NoPrev
      [] r.op = "GetData" /\ r.srcCalls >= 1 /\ r.src.err # "" -> [kind |-> "error", key |-> r.key]
      [] r.op = "GetData" /\ r.srcCalls >= 1 /\ r.src.list = <<>> -> [kind |-> "empty", key |-> r.key]
      [] r.op \in {"Get", "GetData"} /\ r.get.tier = "L2" /\ r.get.promoOk /\ ~r.get.corrupt ->
            [kind |-> "promoted", key |-> r.key]
      [] OTHER -> NoPrev

\* The call starts, after the call whose record is b.
Call(op, k, ttl, value, t, b) ==
    [NoCall EXCEPT !.pc = "start",
                   !.val = value,
                   !.rec = [Idle EXCEPT !.op = op, !.key = k, !.ttl = ttl, !.at = t,
                                         !.prev = CameTo(b),
                                         !.set.calls = IF op = "Set" THEN 1 ELSE 0]]

\* What the lookup finds when it reads the tiers.
Seen(c) ==
    [c EXCEPT !.rec.l1Had = l1Enabled /\ L1Has(l1, c.rec.key),
              !.rec.l2Had = l2Enabled /\ L2Has(l2, c.rec.key, now),
              !.rec.up = Answers,
              !.rec.pre = fresh[c.rec.key],
              !.rec.at = now]

\* A faulty CacheHit: the data source is called although the cache answered.
CacheHit_AlsoFetches(c, u) ==
    [c EXCEPT !.pc = "done", !.rec.resp = SimpleSuccessResponse(u.list, TRUE),
              !.rec.srcCalls = 1]

\* GetData, step 1: the cache answered and the bytes decode.
CacheHit(c, u) ==
    [c EXCEPT !.pc = "done", !.rec.resp = SimpleSuccessResponse(u.list, TRUE)]

\* A faulty Found: cached bytes that do not decode fail the request.
Found_FailsOnCorrupt(c, data, tier) ==
    LET f == [c EXCEPT !.val = data, !.rec.get.tier = tier]
    IN  IF c.rec.op = "Get" THEN [f EXCEPT !.pc = "done"]
        ELSE IF Unmarshal(data).ok THEN CacheHit(f, Unmarshal(data))
        ELSE [f EXCEPT !.pc = "done", !.rec.get.corrupt = TRUE,
                       !.rec.err = [kind |-> "wrapped", platform |-> Platform,
                                    cause |-> "unmarshal"]]

\* Manager.Get returned data.  GetData decodes it and returns it with
\* fromCache=true; bytes that do not decode send it on to the data source.
Found(c, data, tier) ==
    LET f == [c EXCEPT !.val = data, !.rec.get.tier = tier]
    IN  IF c.rec.op = "Get" THEN [f EXCEPT !.pc = "done"]
        ELSE IF Unmarshal(data).ok THEN CacheHit(f, Unmarshal(data))
        ELSE [f EXCEPT !.pc = "fetch", !.rec.get.corrupt = TRUE]

\* Manager.Get returned the miss error.  GetData goes on to the data source.
Missed(c) ==
    LET m == [c EXCEPT !.val = NoBytes, !.rec.get.tier = "miss"]
    IN  IF c.rec.op = "Get" THEN [m EXCEPT !.pc = "done", !.rec.err = CacheMiss]
        ELSE [m EXCEPT !.pc = "fetch"]

\* A faulty L1Lookup: Redis is asked although BigCache holds the key.
L1Lookup_AsksL2(c, c1) == IF l2Enabled THEN [c EXCEPT !.pc = "l2Get"] ELSE Missed(c)

\* Manager.Get, the L1 lookup: a hit returns; a miss goes on to Redis when
\* L2 is in use, and is the answer when it is not.
L1Lookup(c, c1) ==
    IF l1Enabled /\ L1Has(c1, c.rec.key) THEN Found(c, c1[c.rec.key].val, "L1")
    ELSE IF l2Enabled THEN [c EXCEPT !.pc = "l2Get"]
    ELSE Missed(c)

\* A faulty L2Lookup: an L2 hit is returned without the copy into L1.
L2Lookup_NoPromotion(c, c2, t, ok) ==
    IF l2Enabled /\ ok /\ L2Has(c2, c.rec.key, t)
    THEN Found([c EXCEPT !.rec.get.l2Reads = 1], c2[c.rec.key].val, "L2")
    ELSE Missed([c EXCEPT !.rec.get.l2Reads = IF l2Enabled THEN 1 ELSE 0])

\* Manager.Get, the L2 lookup.  ok: the Redis client gets an answer.  A hit
\* is copied into L1, when L1 is in use, before it is returned.
L2Lookup(c, c2, t, ok) ==
    IF l2Enabled /\ ok /\ L2Has(c2, c.rec.key, t)
    THEN IF l1Enabled
         THEN [c EXCEPT !.pc = "promote", !.val = c2[c.rec.key].val, !.exp = c2[c.rec.key].exp,
                        !.rec.get.tier = "L2", !.rec.get.l2Reads = 1,
                        !.rec.get.promoWrites = 1]
         ELSE Found([c EXCEPT !.rec.get.l2Reads = 1], c2[c.rec.key].val, "L2")
    ELSE Missed([c EXCEPT !.rec.get.l2Reads = IF l2Enabled THEN 1 ELSE 0])

\* Manager.Get after the promotion write.  pok: BigCache accepted it.
Promoted(c, pok) == Found([c EXCEPT !.exp = 0, !.rec.get.promoOk = pok], c.val, "L2")

\* A faulty SourceFailed: the failure is masked as an empty success.
SourceFailed_MasksError(c, src) ==
    [c EXCEPT !.pc = "done", !.rec.src = src, !.rec.srcCalls = @ + 1,
              !.rec.resp = SimpleSuccessResponse(<<>>, FALSE)]

\* GetData, step 2, fetchFunc returned an error.
SourceFailed(c, src) ==
    [c EXCEPT !.pc = "done", !.rec.src = src, !.rec.srcCalls = @ + 1,
              !.rec.resp = NilResp,
              !.rec.err = [kind |-> "wrapped", platform |-> Platform, cause |-> src.err]]

\* A faulty Populate: the list is cached whatever its length.
Populate_CachesEmpty(c, src) ==
    LET r == [c EXCEPT !.rec.src = src, !.rec.srcCalls = @ + 1,
                       !.rec.resp = SimpleSuccessResponse(src.list, FALSE)]
    IN  IF MarshalOk(src.list)
        THEN [r EXCEPT !.pc = "l1Set", !.val = Marshal(src.list), !.rec.set.calls = 1]
        ELSE [r EXCEPT !.pc = "done"]

\* A faulty Populate: the fetched list is returned without the cache write.
Populate_SkipsSet(c, src) ==
    [c EXCEPT !.pc = "done", !.rec.src = src, !.rec.srcCalls = @ + 1,
              !.rec.resp = SimpleSuccessResponse(src.list, FALSE)]

\* GetData, steps 3 and 4: a non-empty list that serializes goes to
\* Manager.Set; the list is returned with fromCache=false.
Populate(c, src) ==
    LET r == [c EXCEPT !.rec.src = src, !.rec.srcCalls = @ + 1,
                       !.rec.resp = SimpleSuccessResponse(src.list, FALSE)]
    IN  IF Len(src.list) > 0 /\ MarshalOk(src.list)
        THEN [r EXCEPT !.pc = "l1Set", !.val = Marshal(src.list), !.rec.set.calls = 1]
        ELSE [r EXCEPT !.pc = "done"]

\* GetData after fetchFunc returned.
Fetched(c, src) == IF src.err # "" THEN SourceFailed(c, src) ELSE Populate(c, src)

\* A faulty Stored: a tier that refused the write fails the request.
Stored_SurfacesWriteFailure(c, ok) ==
    LET failed == (c.rec.set.l1Tried /\ ~c.rec.set.l1Ok) \/ (l2Enabled /\ ~ok)
    IN  [c EXCEPT !.pc = "done",
                  !.rec.set.l2Tried = l2Enabled, !.rec.set.l2Ok = l2Enabled /\ ok,
                  !.rec.resp = IF failed THEN NilResp ELSE @,
                  !.rec.err = IF failed
                              THEN [kind |-> "cache", platform |-> Platform, cause |-> "set"]
                              ELSE @]

\* Manager.Set returns nil, after the L2 write when L2 is in use.  ok:
\* Redis took the write.  GetData returns the list it fetched.
Stored(c, ok) ==
    [c EXCEPT !.pc = "done", !.rec.set.l2Tried = l2Enabled, !.rec.set.l2Ok = l2Enabled /\ ok]

\* A faulty AfterL1Set: a failed L1 write returns before the L2 write.
AfterL1Set_StopsAtFailure(c, ok) ==
    LET w == [c EXCEPT !.rec.set.l1Tried = l1Enabled, !.rec.set.l1Ok = l1Enabled /\ ok,
                       !.rec.set.l1At = now]
    IN  IF l1Enabled /\ ~ok THEN [w EXCEPT !.pc = "done"]
        ELSE IF l2Enabled THEN [w EXCEPT !.pc = "l2Set"]
        ELSE Stored(w, FALSE)

\* Manager.Set after the L1 write.  ok: BigCache accepted the entry.  A
\* failure is logged; the L2 write follows in every case when L2 is in use.
AfterL1Set(c, ok) ==
    LET w == [c EXCEPT !.rec.set.l1Tried = l1Enabled, !.rec.set.l1Ok = l1Enabled /\ ok,
                       !.rec.set.l1At = now]
    IN  IF l2Enabled THEN [w EXCEPT !.pc = "l2Set"] ELSE Stored(w, FALSE)

\* Manager.Delete returns nil, after the Redis DEL when L2 is in use.  ok:
\* Redis answered.
Deleted(c, ok) ==
    [c EXCEPT !.pc = "done", !.rec.set.l2Tried = l2Enabled, !.rec.set.l2Ok = l2Enabled /\ ok]

\* A faulty AfterL1Delete: the Redis key is deleted only after BigCache
\* deleted its entry.
AfterL1Delete_StopsAtFailure(c, had) ==
    LET w == [c EXCEPT !.rec.set.l1Tried = l1Enabled, !.rec.set.l1Ok = l1Enabled /\ had]
    IN  IF l1Enabled /\ ~had THEN [w EXCEPT !.pc = "done"]
        ELSE IF l2Enabled THEN [w EXCEPT !.pc = "l2Delete"]
        ELSE Deleted(w, FALSE)

\* Manager.Delete after the L1 deletion.  had: BigCache held the key (its
\* Delete fails on a key it does not hold); the failure is logged only.
AfterL1Delete(c, had) ==
    LET w == [c EXCEPT !.rec.set.l1Tried = l1Enabled, !.rec.set.l1Ok = l1Enabled /\ had]
    IN  IF l2Enabled THEN [w EXCEPT !.pc = "l2Delete"] ELSE Deleted(w, FALSE)

\* The populating fetch on record for the key once the call has returned: a
\* GetData call that found the key in no tier and fetched a non-empty list
\* becomes the record when it returns, at t; any other fetch, a Set or a
\* Delete clears it; a call that only read leaves it.
Recorded(r, f, t) ==
    CASE r.op = "GetData" /\ r.srcCalls = 0 -> f
      [] r.op = "GetData" ->
            [f EXCEPT ![r.key] =
                IF ~r.l1Had /\ ~r.l2Had /\ r.src.err = "" /\ Len(r.src.list) > 0
                THEN [set |-> TRUE, list |-> r.src.list, exp |-> t + Expiration(r.ttl),
                      l1At |-> IF r.set.calls = 1 THEN r.set.l1At ELSE t,
                      l1Lost |-> r.set.l1Tried /\ ~r.set.l1Ok,
                      l2Lost |-> r.set.l2Tried /\ ~r.set.l2Ok]
                ELSE NoFresh]
      [] r.op \in {"Set", "Delete"} -> [f EXCEPT ![r.key] = NoFresh]
      [] OTHER -> f

EmptyL1 == [k \in Keys |-> NoL1]
EmptyL2 == [k \in Keys |-> NoL2]

\* ------------------------------------------------------------ FetchWithRetry: values
\* Errors: nil, the error of the n-th client.Get, ctx.Err().
NilErr == [src |-> "nil", n |-> 0]
OpErr(n) == [src |-> "op", n |-> n]
CtxErr == [src |-> "ctx", n |-> 0]

\* A body is named by the invocation that produced it; NoBody is nil / empty.
NoBody == 0

\* What the n-th client.Get can return: (nil, err), an empty body with a nil
\* error, or a non-empty body with a nil error.
Outcome(n, kind) ==
    CASE kind = "err" -> [body |-> NoBody, err |-> OpErr(n)]
      [] kind = "empty" -> [body |-> NoBody, err |-> NilErr]
      [] OTHER -> [body |-> n, err |-> NilErr]

Plans == { [n \in 1..RetryBound |-> Outcome(n, ks[n])] :
             ks \in [1..RetryBound -> {"err", "empty", "body"}] }

\* DefaultRetryConfig, delays in seconds
DefaultRetryConfig == [MaxRetries |-> 3, InitialDelay |-> 1, MaxDelay |-> 5]

RetryConfigs == { [DefaultRetryConfig EXCEPT !.MaxRetries = m, !.InitialDelay = d] :
                    m \in (-1)..RetryBound, d \in {1, 2} }

NoRet == [body |-> NoBody, err |-> [kind |-> "none", count |-> 0, wraps |-> NilErr]]

\* No FetchWithRetry call is in progress.
RetryIdle ==
    /\ config = DefaultRetryConfig
    /\ attempt = 0
    /\ lastErr = NilErr
    /\ rpc = "idle"
    /\ ctxDone = FALSE
    /\ plan = <<>>
    /\ calls = 0
    /\ waits = <<>>
    /\ ret = NoRet

\* ------------------------------------------------------------ main, warmup: values
\* hotPlatforms
HotPlatforms == << "/weibo", "/toutiao", "/baidu", "/bilibili", "/douyin",
                   "/github", "/csdn", "/v2ex", "/hackernews", "/zhihu" >>
Paths == { HotPlatforms[i] : i \in 1..Len(HotPlatforms) }

\* The defaults of config.Load: cache.enabled = true, redis.enabled = false.
DefaultBoot == [cacheEnabled |-> TRUE, redisEnabled |-> FALSE, l1InitOk |-> TRUE, pingOk |-> FALSE]

\* The capacities of the pool: what New allocates, what a release accepts.
NewBufferCap == 256 * 1024
MaxBufferCap == 512 * 1024
NewListCap == 50
MaxListCap == 200

NoPoolOp == [op |-> "none", kind |-> "", cap |-> 0, len |-> 0, lenWas |-> 0, fresh |-> FALSE,
             pooled |-> FALSE, wasEmpty |-> FALSE, afterDiscard |-> FALSE]

\* Both pools are empty and unused.
PoolIdle ==
    /\ bufPool = EmptyBag
    /\ listPool = EmptyBag
    /\ plast = NoPoolOp

\* The callers running concurrently on the manager.
Procs == {"a", "b", "c"}

NoPromo == [set |-> FALSE, at |-> 0, exp |-> 0]

\* No caller runs.
RaceIdle ==
    /\ callers = [p \in Procs |-> NoCall]
    /\ promo = [k \in Keys |-> NoPromo]

\* The tiers of a manager nothing was written to.
CacheIdle ==
    /\ now = 0
    /\ l1 = EmptyL1
    /\ l2 = EmptyL2
    /\ closed = FALSE
    /\ cleanedAt = 0
    /\ fresh = [k \in Keys |-> NoFresh]

\* The process is up and serving.
MainIdle ==
    /\ boot = DefaultBoot
    /\ mainPc = "listening"
    /\ l2Touched = FALSE

\* warmUpCacheAsync is not running.
WarmIdle ==
    /\ warmPc = "unstarted"
    /\ sem = 0
    /\ wpc = [p \in Paths |-> "idle"]
    /\ attempts = [p \in Paths |-> 0]
    /\ wlast = "none"
    /\ starts = 0

\* NewManager: a tier is in use when it is enabled in the configuration
\* (for L2: and Redis answered the ping).
Init ==
    /\ now = 0
    /\ l1Enabled \in BOOLEAN
    /\ l2Enabled \in BOOLEAN
    /\ l1 = EmptyL1
    /\ l2 = EmptyL2
    /\ l2Up = l2Enabled
    /\ closed = FALSE
    /\ cleanedAt = 0
    /\ fresh = [k \in Keys |-> NoFresh]
    /\ RetryIdle
    /\ MainIdle
    /\ WarmIdle
    /\ hlast = <<>>
    /\ PoolIdle
    /\ RaceIdle

\* main holds the manager NewManager returned.
Built == mainPc \notin {"boot", "fatal"}

\* What a step of a call leaves alone.
notCalls == <<now, l1Enabled, l2Enabled, l2Up, closed, cleanedAt,
              retryVars, boot, mainPc, warmVars, hlast, poolVars>>

\* What the environment of the calls leaves alone.
others == <<retryVars, mainVars, warmVars, hlast, poolVars>>

\* The record of populating fetches is kept: when the step is the return of
\* the call, the record follows.
Returns(p) ==
    fresh' = IF callers'[p].pc = "done" THEN Recorded(callers'[p].rec, fresh, now) ELSE fresh

\* The goroutine runs no call and can make one.
Ready(p) == Built /\ callers[p].pc = "done"

\* Fetcher.GetData (op "GetData") or Manager.Get (op "Get") is called and
\* Manager.Get reads L1: m.l1Cache.Get(key).  Nothing blocks between the
\* call and the read.
GetL1(p, ops) ==
    \E op \in ops, k \in Keys, ttl \in TTLs :
        /\ Ready(p)
        /\ op = "Get" => ttl = 0
        /\ callers' = [callers EXCEPT ![p] =
                          L1Lookup(Seen(Call(op, k, ttl, NoBytes, now, callers[p].rec)), l1)]
        /\ UNCHANGED <<l1, l2, promo, l2Touched, notCalls>>

\* Manager.Get: m.l2Cache.Get(ctx, key).Bytes(), after the wait for Redis
GetL2(p) ==
    LET c == callers[p]
        s == [c EXCEPT !.rec.l2Had = l2Enabled /\ L2Has(l2, c.rec.key, now),
                       !.rec.up = Answers,
                       !.rec.pre = fresh[c.rec.key],
                       !.rec.at = now]
    IN  /\ c.pc = "l2Get"
        /\ callers' = [callers EXCEPT ![p] = L2Lookup(s, l2, now, Answers)]
        /\ l2Touched' = (l2Touched \/ l2Enabled)
        /\ UNCHANGED <<l1, l2, promo, notCalls>>

\* Manager.Get: _ = m.l1Cache.Set(key, data), the promotion of an L2 hit
PromoteL1(p) ==
    \E pok \in BOOLEAN :
        LET c == callers[p]
        IN  /\ c.pc = "promote"
            /\ l1' = L1Write(l1, c.rec.key, c.val, now, pok)
            /\ promo' = [promo EXCEPT ![c.rec.key] =
                            IF pok THEN [set |-> TRUE, at |-> now, exp |-> c.exp] ELSE NoPromo]
            /\ callers' = [callers EXCEPT ![p] = Promoted(c, pok)]
            /\ UNCHANGED <<l2, l2Touched, notCalls>>

\* Manager.Set is entered with the caller record c: m.l1Cache.Set(key, data)
WriteL1(p, c) ==
    \E sok \in BOOLEAN :
        /\ l1' = IF l1Enabled THEN L1Write(l1, c.rec.key, c.val, now, sok) ELSE l1
        /\ promo' = [promo EXCEPT ![c.rec.key] = IF l1Enabled THEN NoPromo ELSE @]
        /\ callers' = [callers EXCEPT ![p] = AfterL1Set(c, sok)]

\* GetData: fetchFunc() returns.  A list to cache is serialized and
\* Manager.Set writes L1; nothing blocks between the return of fetchFunc
\* and that write.
Fetch(p) ==
    \E src \in Sources :
        LET f == Fetched(callers[p], src)
        IN  /\ callers[p].pc = "fetch"
            /\ IF f.pc = "l1Set"
               THEN WriteL1(p, f)
               ELSE /\ callers' = [callers EXCEPT ![p] = f]
                    /\ UNCHANGED <<l1, promo>>
            /\ UNCHANGED <<l2, l2Touched, notCalls>>

\* Manager.Set is called and writes L1.
SetL1(p, vals) ==
    \E k \in Keys, ttl \in TTLs, v \in vals :
        /\ Ready(p)
        /\ WriteL1(p, Call("Set", k, ttl, v, now, callers[p].rec))
        /\ UNCHANGED <<l2, l2Touched, notCalls>>

\* Manager.Set: m.l2Cache.Set(ctx, key, data, expiration), after the wait
\* for Redis
SetL2(p) ==
    LET c == callers[p]
    IN  /\ c.pc = "l2Set"
        /\ l2' = IF l2Enabled /\ Answers
                 THEN L2Set(l2, c.rec.key, c.val, Expiration(c.rec.ttl), now)
                 ELSE l2
        /\ l2Touched' = (l2Touched \/ l2Enabled)
        /\ callers' = [callers EXCEPT ![p] = Stored(c, Answers)]
        /\ UNCHANGED <<l1, promo, notCalls>>

\* Manager.Delete (Fetcher.InvalidateCache calls it) is called and deletes
\* from L1: m.l1Cache.Delete(key)
DeleteL1(p) ==
    \E k \in Keys :
        LET c == Seen(Call("Delete", k, 0, NoBytes, now, callers[p].rec))
        IN  /\ Ready(p)
            /\ l1' = IF l1Enabled THEN L1Delete(l1, k) ELSE l1
            /\ promo' = [promo EXCEPT ![k] = IF l1Enabled THEN NoPromo ELSE @]
            /\ callers' = [callers EXCEPT ![p] = AfterL1Delete(c, L1Has(l1, k))]
            /\ UNCHANGED <<l2, l2Touched, notCalls>>

\* Manager.Delete: m.l2Cache.Del(ctx, key), after the wait for Redis
DeleteL2(p) ==
    LET c == callers[p]
        s == [c EXCEPT !.rec.l2Had = l2Enabled /\ L2Has(l2, c.rec.key, now),
                       !.rec.up = Answers]
    IN  /\ c.pc = "l2Delete"
        /\ l2' = IF l2Enabled /\ Answers THEN L2Delete(l2, c.rec.key) ELSE l2
        /\ l2Touched' = (l2Touched \/ l2Enabled)
        /\ callers' = [callers EXCEPT ![p] = Deleted(s, Answers)]
        /\ UNCHANGED <<l1, promo, notCalls>>

\* The next step of the call a goroutine runs.
Step(p) ==
    \/ GetL2(p)
    \/ PromoteL1(p)
    \/ Fetch(p)
    \/ SetL2(p)
    \/ DeleteL2(p)

\* The environment changes: the calls in progress are disturbed, the calls
\* that returned are no longer the latest thing that happened.
Disturb ==
    /\ callers' = [p \in Procs |->
                      IF callers[p].pc = "done" THEN NoCall
                      ELSE [callers[p] EXCEPT !.rec.disturbed = TRUE, !.rec.prev = NoPrev]]

\* BigCache's cleanup ticker (CleanWindow): every entry older than
\* LifeWindow is removed.  Manager.Close stops the ticker.
CleanUpDue == l1Enabled /\ ~closed /\ now > 0 /\ now % CleanupInterval = 0 /\ cleanedAt # now

cleanUp ==
    /\ CleanUpDue
    /\ l1' = [k \in Keys |-> IF L1Has(l1, k) /\ now - l1[k].at > DefaultExpire THEN NoL1 ELSE l1[k]]
    /\ promo' = [k \in Keys |-> IF L1Has(l1', k) THEN promo[k] ELSE NoPromo]
    /\ cleanedAt' = now
    /\ Disturb
    /\ UNCHANGED <<now, l1Enabled, l2Enabled, l2, l2Up, closed, fresh, others>>

\* Time passes; Redis drops the keys whose expiration is reached.
Tick ==
    /\ now + TickStep <= MaxTime
    /\ ~CleanUpDue
    /\ now' = now + TickStep
    /\ l2' = [k \in Keys |-> IF L2Has(l2, k, now') THEN l2[k] ELSE NoL2]
    /\ Disturb
    /\ UNCHANGED <<l1Enabled, l2Enabled, l1, l2Up, closed, cleanedAt, fresh, promo, others>>

\* Redis stops answering, or answers again.
RedisDown ==
    /\ l2Enabled /\ l2Up
    /\ l2Up' = FALSE
    /\ Disturb
    /\ UNCHANGED <<now, l1Enabled, l2Enabled, l1, l2, closed, cleanedAt, fresh, promo, others>>

RedisUp ==
    /\ l2Enabled /\ ~l2Up
    /\ l2Up' = TRUE
    /\ Disturb
    /\ UNCHANGED <<now, l1Enabled, l2Enabled, l1, l2, closed, cleanedAt, fresh, promo, others>>

\* Another client of the shared Redis writes a key.
ForeignL2Write ==
    \E k \in Keys, b \in ForeignBytes, ttl \in TTLs \ {0} :
        /\ l2Enabled /\ l2Up
        /\ l2' = L2Set(l2, k, b, ttl, now)
        /\ fresh' = [fresh EXCEPT ![k] = NoFresh]
        /\ Disturb
        /\ UNCHANGED <<now, l1Enabled, l2Enabled, l1, l2Up, closed, cleanedAt, promo, others>>

\* Manager.Close: BigCache stops its cleanup ticker and keeps its entries;
\* the Redis client is closed and every later command through it fails.
Close ==
    /\ Built
    /\ ~closed
    /\ closed' = TRUE
    /\ Disturb
    /\ UNCHANGED <<now, l1Enabled, l2Enabled, l1, l2, l2Up, cleanedAt, fresh, promo, others>>

\* Manager.GetStats: BigCache's counters, and INFO stats through the Redis
\* client when L2 is in use.  No tier changes.
GetStats ==
    /\ Built
    /\ l2Touched' = (l2Touched \/ l2Enabled)
    /\ UNCHANGED <<cacheVars, retryVars, boot, mainPc, warmVars, hlast, poolVars, callers, promo>>

\* The goroutine whose calls on the fetcher come one after the other.
One == {"a"}

\* A step of a request served through the fetcher.
Request(p) == GetL1(p, {"GetData"}) \/ DeleteL1(p) \/ Step(p)

\* The requests served through the fetcher, one at a time, while the
\* environment changes at any point of a request.
Serve == \E p \in One : Request(p) /\ UNCHANGED fresh

Next ==
    \/ Serve
    \/ cleanUp
    \/ Tick
    \/ RedisDown
    \/ RedisUp
    \/ ForeignL2Write
    \/ Close
    \/ GetStats

Spec == Init /\ [][Next]_vars

\* The manager when Fetcher.GetData is the only writer of its tiers: no other
\* client writes the shared Redis.  The populating fetches are on record
\* here, where a key keeps what GetData wrote until a Delete.
ServeOwn == \E p \in One : Request(p) /\ Returns(p)

NextOwn ==
    \/ ServeOwn
    \/ cleanUp
    \/ Tick
    \/ RedisDown
    \/ RedisUp
    \/ Close
    \/ GetStats

SpecOwn == Init /\ [][NextOwn]_vars

\* ------------------------------------------------------------ FetchWithRetry
\* A faulty test: any answer without an error counts, an empty body too.
Succeeded_NilErrOnly(o) == o.err = NilErr

\* err == nil && len(body) > 0
Succeeded(o) == o.err = NilErr /\ o.body # NoBody

\* attempt < config.MaxRetries: the loop condition
InLoop(a, cfg) == a < cfg.MaxRetries

\* attempt < config.MaxRetries-1: an attempt follows, wait before it
MoreAttempts(a, cfg) == a < cfg.MaxRetries - 1

\* A faulty delay: the product is not capped.
Delay_Uncapped(a, cfg) == (a + 1) * cfg.InitialDelay

\* delayDuration: (attempt+1) * InitialDelay, at most MaxDelay
Delay(a, cfg) ==
    IF (a + 1) * cfg.InitialDelay > cfg.MaxDelay THEN cfg.MaxDelay
    ELSE (a + 1) * cfg.InitialDelay

\* A faulty select: the timer branch is taken whatever the context says.
Select_IgnoresCtx(done) == "timer"

\* The select of the wait: the branch of the case that is ready first.  The
\* timer needs a positive delay to fire, so a context that is done when the
\* select is entered, or is cancelled before the timer fires, wins.
Select(done) == IF done THEN "ctx" ELSE "timer"

\* return body, nil
Success(o) == [body |-> o.body, err |-> [kind |-> "nil", count |-> 0, wraps |-> NilErr]]

\* return nil, fmt.Errorf("...: %w", ctx.Err())
Cancelled == [body |-> NoBody, err |-> [kind |-> "cancelled", count |-> 0, wraps |-> CtxErr]]

\* A faulty last line: the aggregated error carries no cause.
Exhausted_NoCause(cfg, le) ==
    [body |-> NoBody, err |-> [kind |-> "exhausted", count |-> cfg.MaxRetries, wraps |-> NilErr]]

\* return nil, fmt.Errorf("...(%d ...): %w", config.MaxRetries, lastErr)
Exhausted(cfg, le) ==
    [body |-> NoBody, err |-> [kind |-> "exhausted", count |-> cfg.MaxRetries, wraps |-> le]]

InitRetry ==
    /\ config \in RetryConfigs
    /\ attempt = 0
    /\ lastErr = NilErr
    /\ rpc = "call"
    /\ ctxDone \in BOOLEAN
    /\ plan \in Plans
    /\ calls = 0
    /\ waits = <<>>
    /\ ret = NoRet
    /\ l1Enabled = TRUE /\ l2Enabled = FALSE /\ l2Up = FALSE
    /\ CacheIdle
    /\ MainIdle
    /\ WarmIdle
    /\ hlast = <<>>
    /\ PoolIdle
    /\ RaceIdle

notRetry == <<cacheVars, mainVars, warmVars, hlast, poolVars, callers, promo>>

\* The loop is left: every attempt allowed was made (or none was allowed).
LoopExit ==
    /\ rpc = "call"
    /\ ~InLoop(attempt, config)
    /\ ret' = Exhausted(config, lastErr)
    /\ rpc' = "done"
    /\ UNCHANGED <<config, attempt, lastErr, ctxDone, plan, calls, waits, notRetry>>

\* One iteration of the loop up to its select: client.Get, the test of its
\* answer, lastErr, and the start of the timer.
Attempt ==
    /\ rpc = "call"
    /\ InLoop(attempt, config)
    /\ LET o == plan[calls + 1]
       IN  /\ calls' = calls + 1
           /\ IF Succeeded(o)
              THEN /\ ret' = Success(o)
                   /\ rpc' = "done"
                   /\ UNCHANGED <<attempt, lastErr, waits>>
              ELSE /\ lastErr' = o.err
                   /\ IF MoreAttempts(attempt, config)
                      THEN /\ waits' = Append(waits, Delay(attempt, config))
                           /\ rpc' = "wait"
                           /\ UNCHANGED <<attempt, ret>>
                      ELSE /\ attempt' = attempt + 1
                           /\ UNCHANGED <<waits, rpc, ret>>
    /\ UNCHANGED <<config, ctxDone, plan, notRetry>>

\* The select returns: the timer fired, or the context is done.
Wait ==
    /\ rpc = "wait"
    /\ IF Select(ctxDone) = "ctx"
       THEN /\ ret' = Cancelled
            /\ rpc' = "done"
            /\ UNCHANGED attempt
       ELSE /\ attempt' = attempt + 1
            /\ rpc' = "call"
            /\ UNCHANGED ret
    /\ UNCHANGED <<config, lastErr, ctxDone, plan, calls, waits, notRetry>>

\* The caller cancels the context, or its deadline passes.
Cancel ==
    /\ rpc \in {"call", "wait"}
    /\ ~ctxDone
    /\ ctxDone' = TRUE
    /\ UNCHANGED <<config, attempt, lastErr, rpc, plan, calls, waits, ret, notRetry>>

NextRetry ==
    \/ LoopExit
    \/ Attempt
    \/ Wait
    \/ Cancel

SpecRetry == InitRetry /\ [][NextRetry]_vars

\* ------------------------------------------------------------ startup
\* The configuration read by config.Load and what the environment does
\* during NewManager: bigcache.New succeeds or not, Redis answers the ping
\* or not.
Boots == [cacheEnabled : BOOLEAN, redisEnabled : BOOLEAN, l1InitOk : BOOLEAN, pingOk : BOOLEAN]

\* A faulty NewManager: a failed ping leaves L2 enabled.
NewManager_KeepsL2(b) ==
    IF b.cacheEnabled /\ ~b.l1InitOk
    THEN [err |-> TRUE, l1Enabled |-> FALSE, l2Enabled |-> FALSE]
    ELSE [err |-> FALSE, l1Enabled |-> b.cacheEnabled, l2Enabled |-> b.redisEnabled]

\* NewManager(cfg): the error, or the tiers of the manager returned.  L1 is
\* initialised first and its failure returns at once; a failed ping clears
\* l2Enabled.
NewManager(b) ==
    IF b.cacheEnabled /\ ~b.l1InitOk
    THEN [err |-> TRUE, l1Enabled |-> FALSE, l2Enabled |-> FALSE]
    ELSE [err |-> FALSE, l1Enabled |-> b.cacheEnabled,
          l2Enabled |-> b.redisEnabled /\ b.pingOk]

InitStartup ==
    /\ boot \in Boots
    /\ mainPc = "boot"
    /\ l2Touched = FALSE
    /\ l1Enabled = FALSE
    /\ l2Enabled = FALSE
    /\ l2Up = boot.pingOk
    /\ CacheIdle
    /\ RetryIdle
    /\ WarmIdle
    /\ hlast = <<>>
    /\ PoolIdle
    /\ RaceIdle

notStartup == <<now, closed, cleanedAt, fresh, retryVars, warmVars, hlast, poolVars, callers>>

\* main, step 3: cache.NewManager(cfg); logger.Fatal on its error.
Startup ==
    /\ mainPc = "boot"
    /\ LET m == NewManager(boot)
       IN  /\ mainPc' = IF m.err THEN "fatal" ELSE "running"
           /\ l1Enabled' = m.l1Enabled
           /\ l2Enabled' = m.l2Enabled
    /\ UNCHANGED <<boot, l2Touched, l1, l2, l2Up, promo, notStartup>>

\* Redis becomes reachable, or stops being so, whatever the manager holds.
RedisFlips ==
    /\ mainPc = "running"
    /\ l2Up' = ~l2Up
    /\ UNCHANGED <<boot, mainPc, l2Touched, l1Enabled, l2Enabled, l1, l2, promo, notStartup>>

\* The calls of the manager on the running process, one at a time.
Calls ==
    \E p \in One :
        /\ GetL1(p, {"Get", "GetData"}) \/ SetL1(p, ForeignBytes) \/ DeleteL1(p) \/ Step(p)
        /\ UNCHANGED fresh

NextStartup ==
    \/ Startup
    \/ Calls
    \/ GetStats
    \/ Close
    \/ RedisFlips

SpecStartup == InitStartup /\ [][NextStartup]_vars

\* ------------------------------------------------------------ promoted entries over time
\* The running process with both tiers in use and Redis answering; time
\* passes between the calls of the manager.
InitPromo ==
    /\ boot = [DefaultBoot EXCEPT !.redisEnabled = TRUE, !.pingOk = TRUE]
    /\ mainPc = "running"
    /\ l2Touched = FALSE
    /\ l1Enabled = TRUE
    /\ l2Enabled = TRUE
    /\ l2Up = TRUE
    /\ CacheIdle
    /\ RetryIdle
    /\ WarmIdle
    /\ hlast = <<>>
    /\ PoolIdle
    /\ RaceIdle

NextPromo ==
    \/ Calls
    \/ Tick
    \/ cleanUp

SpecPromo == InitPromo /\ [][NextPromo]_vars

\* ------------------------------------------------------------ concurrent callers
\* Goroutines call Fetcher.GetData, Manager.Get, Manager.Set and
\* Manager.Delete on one manager.  BigCache and Redis serialize the single
\* reads and writes; nothing orders the reads and writes of one call with
\* those of another, so every call advances one tier operation at a time.
\* Both tiers are in use and Redis answers; BigCache may refuse an entry.
Values == { Marshal(l) : l \in { q \in Lists : Len(q) > 0 /\ MarshalOk(q) } }

\* The tiers when the callers start: empty, the key in Redis only, or the
\* key in both tiers.
InitRace ==
    /\ l1Enabled = TRUE /\ l2Enabled = TRUE /\ l2Up = TRUE
    /\ now = 0
    /\ closed = FALSE
    /\ cleanedAt = 0
    /\ fresh = [k \in Keys |-> NoFresh]
    /\ \E v \in Values, held \in {"none", "L2", "both"} :
          /\ l2 = IF held = "none" THEN EmptyL2
                  ELSE [k \in Keys |-> [val |-> v, exp |-> now + DefaultExpire]]
          /\ l1 = IF held = "both" THEN [k \in Keys |-> [val |-> v, at |-> now]] ELSE EmptyL1
    /\ RetryIdle
    /\ MainIdle
    /\ WarmIdle
    /\ hlast = <<>>
    /\ PoolIdle
    /\ RaceIdle

\* Every goroutine makes one call.
Once(p) ==
    /\ callers[p].rec.op = "none"
    /\ GetL1(p, {"Get", "GetData"}) \/ SetL1(p, Values) \/ DeleteL1(p)

NextRace == \E p \in Procs : (Once(p) \/ Step(p)) /\ UNCHANGED fresh

SpecRace == InitRace /\ [][NextRace]_vars

\* ------------------------------------------------------------ warmup
\* A faulty semaphore: the send never blocks.
CanAcquire_Unbounded(s) == TRUE

\* semaphore <- struct{}{} goes through while the channel's buffer has room.
CanAcquire(s) == s < WarmConcurrency

\* A faulty release: the slot of a failed fetch is kept.
AfterFetch_KeepsSlotOnFailure(s, ok) == IF ok THEN s - 1 ELSE s

\* defer func() { <-semaphore }(): the slot is given back when the goroutine
\* returns, from the failure branch as from the success branch.
AfterFetch(s, ok) == s - 1

\* The process has not exited.
Alive == mainPc # "fatal"

\* main has registered the routes and is about to start the warmup.
InitWarm ==
    /\ boot = DefaultBoot
    /\ mainPc = "registered"
    /\ l2Touched = FALSE
    /\ WarmIdle
    /\ l1Enabled = TRUE /\ l2Enabled = FALSE /\ l2Up = FALSE
    /\ CacheIdle
    /\ RetryIdle
    /\ hlast = <<>>
    /\ PoolIdle
    /\ RaceIdle

notWarm == <<cacheVars, retryVars, boot, l2Touched, hlast, poolVars, callers, promo>>

\* main, step 6.5: go warmUpCacheAsync(registry)
StartWarmup ==
    /\ mainPc = "registered"
    /\ mainPc' = "setup"
    /\ warmPc' = "sleep"
    /\ starts' = starts + 1
    /\ UNCHANGED <<sem, wpc, attempts, wlast, notWarm>>

\* main, steps 7 to 11 and app.Listen: the server accepts connections.
Listen ==
    /\ mainPc = "setup"
    /\ mainPc' = "listening"
    /\ UNCHANGED <<warmVars, notWarm>>

\* app.Listen returns an error: logger.Fatal ends the process.
ListenFails ==
    /\ mainPc = "setup"
    /\ mainPc' = "fatal"
    /\ UNCHANGED <<warmVars, notWarm>>

\* warmUpCacheAsync: the sleep ends and the loop starts one goroutine per
\* path, each of them about to send on the semaphore.
Spawn ==
    /\ Alive
    /\ warmPc = "sleep"
    /\ warmPc' = "wait"
    /\ wpc' = [p \in Paths |-> "queued"]
    /\ UNCHANGED <<mainPc, sem, attempts, wlast, starts, notWarm>>

\* A goroutine takes a slot and issues its GET to 127.0.0.1:6688.
Acquire(p) ==
    /\ Alive
    /\ wpc[p] = "queued"
    /\ CanAcquire(sem)
    /\ sem' = sem + 1
    /\ wpc' = [wpc EXCEPT ![p] = "fetch"]
    /\ attempts' = [attempts EXCEPT ![p] = @ + 1]
    /\ UNCHANGED <<mainPc, warmPc, wlast, starts, notWarm>>

\* httpClient.Get returns a body: the server answered 200.  The deferred
\* calls run: the slot is released, wg.Done().
FetchOk(p) ==
    /\ Alive
    /\ wpc[p] = "fetch"
    /\ mainPc = "listening"
    /\ sem' = AfterFetch(sem, TRUE)
    /\ wpc' = [wpc EXCEPT ![p] = "done"]
    /\ wlast' = "ok"
    /\ UNCHANGED <<mainPc, warmPc, attempts, starts, notWarm>>

\* httpClient.Get returns an error (connection refused, a status other than
\* 200, a timeout): a warning is logged, the deferred calls run.
FetchFail(p) ==
    /\ Alive
    /\ wpc[p] = "fetch"
    /\ sem' = AfterFetch(sem, FALSE)
    /\ wpc' = [wpc EXCEPT ![p] = "done"]
    /\ wlast' = "fail"
    /\ UNCHANGED <<mainPc, warmPc, attempts, starts, notWarm>>

\* wg.Wait() returns, the summary is logged, warmUpCacheAsync returns.
Finish ==
    /\ Alive
    /\ warmPc = "wait"
    /\ \A p \in Paths : wpc[p] = "done"
    /\ warmPc' = "returned"
    /\ UNCHANGED <<mainPc, sem, wpc, attempts, wlast, starts, notWarm>>

MainStep == StartWarmup \/ Listen \/ ListenFails

WarmStep ==
    \/ Spawn
    \/ \E p \in Paths : Acquire(p)
    \/ \E p \in Paths : FetchOk(p)
    \/ \E p \in Paths : FetchFail(p)
    \/ Finish

NextWarm ==
    \/ StartWarmup
    \/ Listen
    \/ ListenFails
    \/ Spawn
    \/ \E p \in Paths : Acquire(p)
    \/ \E p \in Paths : FetchOk(p)
    \/ \E p \in Paths : FetchFail(p)
    \/ Finish

SpecWarm == InitWarm /\ [][NextWarm]_vars

\* The go statement of main is executed, and every goroutine of the warmup
\* that can take a step takes one: started goroutines run, a GET in flight
\* returns.
SpecWarmFair == SpecWarm /\ WF_vars(StartWarmup) /\ WF_vars(WarmStep)

\* ------------------------------------------------------------ handlers
\* Handler.Handle (BilibiliHandler, DouyinHandler and the others alike): the
\* cache flag is read, the platform's fetch function is called directly,
\* and the response reports fromCache = !noCache.  Fetcher.GetData is not
\* called and the tiers are neither read nor written.  src: what the
\* platform answers.
Handle(c1, c2, noCache, src) ==
    [l1 |-> c1, l2 |-> c2,
     upstream |-> 1,
     getData |-> 0,
     status |-> IF src.err # "" THEN 500 ELSE 200,
     fromCache |-> src.err = "" /\ ~noCache]

\* The record kept of a request served.
Served(by, p, noCache, h) ==
    [by |-> by, path |-> p, noCache |-> noCache, status |-> h.status,
     upstream |-> h.upstream, getData |-> h.getData, fromCache |-> h.fromCache]

\* The last two requests.
Remember(r) == IF Len(hlast) = 2 THEN << hlast[2], r >> ELSE Append(hlast, r)

\* The server is listening, with the default cache configuration (L1 in
\* use) and Redis in use or not.
InitHandlers ==
    /\ l1Enabled = TRUE
    /\ l2Enabled \in BOOLEAN
    /\ l2Up = l2Enabled
    /\ CacheIdle
    /\ RetryIdle
    /\ MainIdle
    /\ WarmIdle
    /\ hlast = <<>>
    /\ PoolIdle
    /\ RaceIdle

notHandlers == <<now, l1Enabled, l2Enabled, l2Up, closed, cleanedAt, fresh, retryVars, mainVars, warmVars,
                 poolVars, callers, promo>>

\* A warmup goroutine's GET http://127.0.0.1:6688<path>, served by the
\* path's handler.
WarmupGet ==
    \E p \in Paths, src \in Sources :
        LET h == Handle(l1, l2, FALSE, src)
        IN  /\ l1' = h.l1
            /\ l2' = h.l2
            /\ hlast' = Remember(Served("warmup", p, FALSE, h))
            /\ UNCHANGED notHandlers

\* A client's GET <path>, with or without cache=false.
ClientRequest ==
    \E p \in Paths, noCache \in BOOLEAN, src \in Sources :
        LET h == Handle(l1, l2, noCache, src)
        IN  /\ l1' = h.l1
            /\ l2' = h.l2
            /\ hlast' = Remember(Served("client", p, noCache, h))
            /\ UNCHANGED notHandlers

NextHandlers ==
    \/ WarmupGet
    \/ ClientRequest

SpecHandlers == InitHandlers /\ [][NextHandlers]_vars

\* ------------------------------------------------------------ ObjectPool
\* A slice is its capacity and its length.  The slices a caller may hand to a
\* release: what New allocates, and slices grown up to, onto and past the
\* guard; empty or full.
Slices(caps) == UNION { { [cap |-> c, len |-> n] : n \in {0, c} } : c \in caps }
Buffers == Slices({NewBufferCap, MaxBufferCap - 1, MaxBufferCap, MaxBufferCap + 1})
HotDataLists == Slices({NewListCap, MaxListCap - 1, MaxListCap, MaxListCap + 1})

\* sync.Pool.New of the two pools
NewBuffer == [cap |-> NewBufferCap, len |-> 0]
NewHotDataList == [cap |-> NewListCap, len |-> 0]

\* sync.Pool.Put
Put(pool, x) == pool (+) SetToBag({x})

\* What sync.Pool.Get may return: an item of the pool, which it removes, or
\* the result of New (always so when the pool is empty; Get may also ignore
\* the items it holds).
PoolGets(pool, new) ==
    { [item |-> x, fresh |-> FALSE, pool |-> pool (-) SetToBag({x})] : x \in BagToSet(pool) }
        \cup { [item |-> new, fresh |-> TRUE, pool |-> pool] }

\* A faulty acquire: the slice is returned with the length it was pooled with.
AcquireResponseBuffer_KeepsLen(got) == got

\* AcquireResponseBuffer: buf[:0]
AcquireResponseBuffer(got) == [got EXCEPT !.len = 0]

\* AcquireHotDataList: list[:0]
AcquireHotDataList(got) == [got EXCEPT !.len = 0]

\* A faulty release: every buffer is pooled.
ReleaseResponseBuffer_NoGuard(pool, buf) == Put(pool, buf)

\* ReleaseResponseBuffer: if cap(buf) <= 512*1024 { Put(buf) }
ReleaseResponseBuffer(pool, buf) == IF buf.cap <= MaxBufferCap THEN Put(pool, buf) ELSE pool

\* ReleaseHotDataList: if cap(list) <= 200 { Put(list) }
ReleaseHotDataList(pool, list) == IF list.cap <= MaxListCap THEN Put(pool, list) ELSE pool

\* NewObjectPool
InitPool ==
    /\ PoolIdle
    /\ l1Enabled = TRUE /\ l2Enabled = FALSE /\ l2Up = FALSE
    /\ CacheIdle
    /\ RetryIdle
    /\ MainIdle
    /\ WarmIdle
    /\ hlast = <<>>
    /\ RaceIdle

notPool == <<cacheVars, retryVars, mainVars, warmVars, hlast, callers, promo>>

Discarded == plast.op = "release" /\ ~plast.pooled

Acquired(kind, g, c, pool) ==
    [op |-> "acquire", kind |-> kind, cap |-> c.cap, len |-> c.len, lenWas |-> g.item.len,
     fresh |-> g.fresh, pooled |-> FALSE, wasEmpty |-> pool = EmptyBag, afterDiscard |-> Discarded]

Released(kind, x, pool, after) ==
    [NoPoolOp EXCEPT !.op = "release", !.kind = kind, !.cap = x.cap, !.len = x.len,
                     !.lenWas = x.len, !.pooled = (after # pool)]

AcquireBuffer ==
    \E g \in PoolGets(bufPool, NewBuffer) :
        /\ bufPool' = g.pool
        /\ plast' = Acquired("buffer", g, AcquireResponseBuffer(g.item), bufPool)
        /\ UNCHANGED <<listPool, notPool>>

ReleaseBuffer ==
    \E buf \in Buffers :
        /\ BagCardinality(bufPool) < MaxPooled
        /\ bufPool' = ReleaseResponseBuffer(bufPool, buf)
        /\ plast' = Released("buffer", buf, bufPool, bufPool')
        /\ UNCHANGED <<listPool, notPool>>

AcquireList ==
    \E g \in PoolGets(listPool, NewHotDataList) :
        /\ listPool' = g.pool
        /\ plast' = Acquired("list", g, AcquireHotDataList(g.item), listPool)
        /\ UNCHANGED <<bufPool, notPool>>

ReleaseList ==
    \E list \in HotDataLists :
        /\ BagCardinality(listPool) < MaxPooled
        /\ listPool' = ReleaseHotDataList(listPool, list)
        /\ plast' = Released("list", list, listPool, listPool')
        /\ UNCHANGED <<bufPool, notPool>>

\* A garbage collection empties the pools.
PoolCleanup ==
    /\ bufPool # EmptyBag \/ listPool # EmptyBag
    /\ bufPool' = EmptyBag
    /\ listPool' = EmptyBag
    /\ plast' = NoPoolOp
    /\ UNCHANGED notPool

NextPool ==
    \/ AcquireBuffer
    \/ ReleaseBuffer
    \/ AcquireList
    \/ ReleaseList
    \/ PoolCleanup

SpecPool == InitPool /\ [][NextPool]_vars

\* ============================================================ claims
\* The outcome of the call that returned last on the goroutine whose calls
\* come one after the other, while nothing has happened since.
last == LET p == CHOOSE q \in One : TRUE
        IN  IF callers[p].pc = "done" THEN callers[p].rec ELSE Idle

Called == last.op = "GetData"
SourceOk == last.src.err = ""
Hit == Called /\ ~last.resp.nil /\ last.resp.fromCache

\* The first half of C1: a key absent from the cache, a data source that
\* returns a non-empty list L: the response carries L with fromCache=false.
FirstCallFresh ==
    (Called /\ ~last.l1Had /\ ~last.l2Had /\ SourceOk /\ Len(last.src.list) > 0)
        => /\ ~last.resp.nil
           /\ ~last.resp.fromCache
           /\ last.resp.data = last.src.list
           /\ last.srcCalls = 1

\* The call is a GetData call made after the call on record that fetched
\* the list L = last.pre.list for the key (no Delete, no other write of the
\* key since), its cache lookup made before the ttl of that call has expired.
CalledWithinTtl == Called /\ last.pre.set /\ last.at < last.pre.exp

\* BigCache, in use, did not refuse the entry of the call on record, and no
\* cleanup has run later than the default expiry after that write.
L1Keeps ==
    /\ l1Enabled /\ MarshalOk(last.pre.list) /\ ~last.pre.l1Lost
    /\ cleanedAt - last.pre.l1At <= DefaultExpire

\* Redis, in use, took the SET of the call on record, and answers the
\* lookup (made before the ttl has expired).
L2Keeps ==
    /\ l2Enabled /\ MarshalOk(last.pre.list) /\ ~last.pre.l2Lost
    /\ last.up

\* g is what the Hot value h is after the JSON round trip: nil stays nil, a
\* string the same string; an integer is a float64, of the same value below 2^53, and the nearest
\* float64 (an even integer at distance at most 1, the one whose half is
\* even for an odd integer) from 2^53 on.
RoundTrip(h, g) ==
    IF h.t \in {"nil", "string"} THEN g = h
    ELSE /\ g.t = "float"
         /\ IF h.n.hi < Mantissa THEN g.n = h.n
            ELSE LET d == IF g.n.hi = h.n.hi THEN g.n.lo - h.n.lo
                          ELSE Limb + g.n.lo - h.n.lo
                 IN  /\ g.n.hi \in {h.n.hi, h.n.hi + 1}
                     /\ g.n.lo % 2 = 0
                     /\ d \in {-1, 0, 1}
                     /\ h.n.lo % 2 = 1 => (g.n.lo \div 2) % 2 = 0

\* Every integer of the list is below 2^53.
ExactNumbers(list) == \A i \in 1..Len(list) : list[i].hot.n.hi < Mantissa

\* The response is a cache hit without a source call.
HitWithoutFetch == Hit /\ last.srcCalls = 0

\* The response of a later call has the record content of the list L the
\* earlier call fetched, as JSON (a number that was an int in L is a float64
\* after decoding), without a source call.
ServedFromCache ==
    /\ HitWithoutFetch
    /\ MarshalOk(last.resp.data)
    /\ Marshal(last.resp.data) = Marshal(last.pre.list)

\* The same, with the content L has after the JSON round trip: the records
\* of L, every number a float64; the JSON is that of L when every integer of
\* L is below 2^53.
ServedRoundTrip ==
    /\ HitWithoutFetch
    /\ Len(last.resp.data) = Len(last.pre.list)
    /\ \A i \in 1..Len(last.pre.list) :
            /\ last.resp.data[i].id = last.pre.list[i].id
            /\ RoundTrip(last.pre.list[i].hot, last.resp.data[i].hot)
    /\ ExactNumbers(last.pre.list) => Marshal(last.resp.data) = Marshal(last.pre.list)

\* C1 as claimed: for a key K absent from the cache, GetData with a data
\* source returning a non-empty list L answers fromCache=false with L, and
\* every later GetData(K) before the TTL expires (no Delete, no other
\* write of K in between) answers fromCache=true with the content of L and
\* does not call its data source.
C1_AsClaimed ==
    /\ FirstCallFresh
    /\ CalledWithinTtl => ServedFromCache

\* C1 (amended): for a key K absent from the cache, GetData with a data
\* source returning a non-empty list L answers fromCache=false with L.  A
\* later GetData(K) before the TTL expires (no Delete, no other write of K
\* in between) answers fromCache=true without calling its data source
\* when L serializes and a tier in use took the write and keeps it:
\* BigCache when it did not refuse the entry, until its first cleanup later
\* than the default expiry after the write; Redis when its SET succeeded,
\* until the TTL, when it answers the lookup.  The content is that of L after
\* the JSON round trip (a nil or string Hot as it was, a number a float64):
\* the same JSON when every integer of L is below 2^53, a larger integer
\* being rounded to the nearest float64.
C1_CacheAside ==
    /\ FirstCallFresh
    /\ (CalledWithinTtl /\ (L1Keeps \/ L2Keeps)) => ServedRoundTrip

\* C1 witness: the first call's BigCache write was refused and Redis took
\* the list, whose Hot is 2^53 + 1; the second call is answered from Redis
\* with Hot = 2^53, another JSON text than that of the list.
C1_Witness ==
    /\ CalledWithinTtl /\ L2Keeps /\ l1Enabled /\ last.pre.l1Lost
    /\ ServedRoundTrip
    /\ last.get.tier = "L2"
    /\ last.pre.list = << [id |-> "1", hot |-> [t |-> "int", n |-> Num(Mantissa, 1)]] >>
    /\ last.resp.data = << [id |-> "1", hot |-> [t |-> "float", n |-> Num(Mantissa, 0)]] >>
    /\ Marshal(last.resp.data) # Marshal(last.pre.list)

\* C2 as claimed: once the ttl passed to GetData for K has elapsed since
\* the entry was written, the next GetData(K) calls the data source and
\* answers fromCache=false, whichever tier held the entry.
C2_AsClaimed ==
    (Called /\ last.pre.set /\ last.at >= last.pre.exp)
        => /\ last.srcCalls = 1
           /\ ~Hit

\* ------------------------------------------------------------ C3 .. C10
\* The call is a GetData call that nothing disturbed, made right after a
\* call on the same key that came to kind.
CalledAfter(kind) ==
    Called /\ ~last.disturbed /\ last.prev = [kind |-> kind, key |-> last.key]

\* The step is the return of a GetData call, and it leaves both tiers as
\* the Manager.Get of the call leaves them: it writes nothing, or it is the
\* promotion write of that Get.
NoWriteAfterLookup ==
    /\ l2' = l2
    /\ \/ l1' = l1
       \/ \E p \in One :
             /\ callers[p].pc = "promote"
             /\ l1' = L1Write(l1, last'.key, callers[p].val, now, last'.get.promoOk)

SourceErrored == Called /\ last.srcCalls >= 1 /\ ~SourceOk
SourceEmpty == Called /\ last.srcCalls >= 1 /\ SourceOk /\ last.src.list = <<>>
CacheAnswered == Called /\ last.get.tier \in {"L1", "L2"} /\ ~last.get.corrupt

\* C3: when the data source returns an error, GetData returns a nil
\* response and the error wrapped with the platform name, the data source
\* was called exactly once, no tier is written for the key, and the next
\* GetData for the key calls the data source again.
C3_SourceErrorNotCached ==
    /\ [](SourceErrored =>
            /\ last.resp.nil
            /\ last.err = [kind |-> "wrapped", platform |-> Platform, cause |-> last.src.err]
            /\ last.srcCalls = 1
            /\ last.set.calls = 0)
    /\ [][SourceErrored' => NoWriteAfterLookup]_vars
    /\ [](CalledAfter("error") => last.srcCalls = 1)

\* C3 witness: a call whose data source failed, with Redis holding bytes
\* for the key that did not decode, right after a call whose data source
\* failed.
C3_Witness ==
    /\ SourceErrored /\ last.resp.nil /\ last.err.cause = "e1"
    /\ last.l2Had /\ last.get.corrupt
    /\ CalledAfter("error")

\* C4: when the data source returns an empty list without error, GetData
\* answers successfully with fromCache=false, performs no cache Set, and
\* the next GetData for the key calls the data source again.
C4_EmptyNotCached ==
    /\ [](SourceEmpty =>
            /\ ~last.resp.nil
            /\ ~last.resp.fromCache
            /\ last.resp.data = <<>>
            /\ last.resp.total = 0
            /\ last.err = NoErr
            /\ last.set.calls = 0)
    /\ [][SourceEmpty' => NoWriteAfterLookup]_vars
    /\ [](CalledAfter("empty") => (last.srcCalls = 1 /\ ~last.resp.fromCache))

\* C4 witness: an empty, successful fetch with both tiers in use and
\* readable, after which neither tier holds the key.
C4_Witness ==
    /\ SourceEmpty /\ ~last.resp.nil
    /\ CalledAfter("empty")
    /\ l1Enabled /\ l2Enabled /\ last.up
    /\ \A k \in Keys : ~L1Has(l1, k) /\ ~L2Has(l2, k, now)

\* C5: GetData returns an error exactly when its data source returned
\* one; whatever the tiers do (a read that fails, a write that is refused,
\* Redis disabled or not answering), a data source that succeeds gives a
\* successful response carrying the fetched list.
C5_OnlySourceErrors ==
    Called =>
        /\ (last.err # NoErr) <=> (last.srcCalls = 1 /\ ~SourceOk)
        /\ (last.err = NoErr) <=> ~last.resp.nil
        /\ (last.srcCalls = 1 /\ SourceOk) =>
                /\ last.resp.data = last.src.list
                /\ ~last.resp.fromCache
                /\ last.resp.code = 200

\* C5 witness: Redis does not answer and BigCache refuses the entry; the
\* call still returns the fetched list.
C5_Witness ==
    /\ Called /\ SourceOk /\ Len(last.src.list) > 0
    /\ l2Enabled /\ ~last.up /\ last.get.l2Reads = 1
    /\ last.set.calls = 1
    /\ last.set.l1Tried /\ ~last.set.l1Ok
    /\ last.set.l2Tried /\ ~last.set.l2Ok
    /\ last.err = NoErr /\ last.resp.data = last.src.list

\* What the same call returns when both tiers are empty.
OnMiss == Fetched(Missed(Call("GetData", last.key, last.ttl, NoBytes, last.at, Idle)), last.src).rec

\* C6: when the cache returns bytes that do not decode into a record
\* list, GetData does what it does on a miss: the data source is called,
\* and its result (fromCache=false) or its error is returned.
C6_CorruptIsMiss ==
    (Called /\ last.get.corrupt) =>
        /\ last.srcCalls = 1
        /\ last.resp = OnMiss.resp
        /\ last.err = OnMiss.err
        /\ last.set.calls = OnMiss.set.calls
        /\ SourceOk => (~last.resp.nil /\ ~last.resp.fromCache)

\* C6 witness: bytes that do not decode were read from L1, and the call
\* returned the freshly fetched list.
C6_Witness ==
    /\ Called /\ last.get.corrupt /\ last.get.tier = "L1"
    /\ ~last.resp.nil /\ Len(last.resp.data) > 0

\* C7: in every GetData call the data source is called at most once and
\* cache.Set at most once; when cache.Get answers with bytes that decode,
\* the data source is not called and GetData writes nothing to the cache
\* (the tiers stay as the Manager.Get of the call left them).
C7_AtMostOnce ==
    /\ [](Called =>
            /\ last.srcCalls <= 1
            /\ last.set.calls <= 1
            /\ CacheAnswered => (last.srcCalls = 0 /\ last.set.calls = 0 /\ last.resp.fromCache))
    /\ [][CacheAnswered' => NoWriteAfterLookup]_vars

\* C7 witness: a hit answered from L1 while Redis holds the key too.
C7_Witness ==
    /\ CacheAnswered /\ last.get.tier = "L1" /\ last.l2Had /\ last.up
    /\ last.srcCalls = 0 /\ last.set.calls = 0

\* The bytes Manager.Get returned to the call.
Got == callers[CHOOSE q \in One : TRUE].val

\* C8: a key held by L2 only (L1 in use, not holding it): Manager.Get
\* returns the L2 value and copies it into L1, so that the Get that
\* follows is answered by L1 without a read of L2; a promotion write that
\* fails does not fail the read.
C8_Promotion ==
    /\ (Called /\ last.get.tier = "L2") =>
            /\ ~last.l1Had /\ last.l2Had /\ last.up
            /\ last.get.l2Reads = 1
            /\ last.get.promoWrites = (IF l1Enabled THEN 1 ELSE 0)
            /\ ~last.get.corrupt =>
                    /\ Hit
                    /\ last.resp.data = Unmarshal(Got).list
                    /\ ~last.disturbed => l2[last.key].val = Got
                    /\ last.get.promoOk => l1[last.key] = [val |-> Got, at |-> now]
    /\ CalledAfter("promoted") => (last.get.tier = "L1" /\ last.get.l2Reads = 0)

\* C8 witness: an L2 hit promoted into L1.
C8_Witness ==
    /\ Called /\ last.get.tier = "L2" /\ last.get.promoOk /\ Hit
    /\ Len(last.resp.data) > 0
    /\ l1[last.key].val = l2[last.key].val
    /\ l1[last.key].val = Got

\* C9: Manager.Get for a key that L1 holds returns the L1 value and
\* issues no operation against Redis.
C9_L1HitSkipsL2 ==
    (Called /\ last.l1Had) =>
        /\ last.get.tier = "L1"
        /\ last.get.l2Reads = 0
        /\ last.get.promoWrites = 0
        /\ ~last.get.corrupt => (Hit /\ last.resp.data = Unmarshal(l1[last.key].val).list)

\* C9 witness: L1 and a readable Redis both hold the key; L1 answers.
C9_Witness ==
    /\ Called /\ last.l1Had /\ last.l2Had /\ last.up
    /\ Hit /\ last.get.l2Reads = 0
    /\ l1[last.key].val # l2[last.key].val

\* C10: Manager.Set tries the write on every tier in use, each
\* independently of the other's outcome: a tier that takes the write
\* holds the value afterwards whatever the other tier did, and Set
\* returns nil.
C10_SetIndependent ==
    (Called /\ last.set.calls = 1) =>
        /\ last.set.l1Tried = l1Enabled
        /\ last.set.l2Tried = l2Enabled
        /\ last.set.errNil
        /\ (last.set.l1Ok /\ (~last.disturbed \/ ~l2Enabled)) =>
                l1[last.key] = [val |-> Marshal(last.src.list), at |-> now]
        /\ last.set.l2Ok => l2[last.key] = [val |-> Marshal(last.src.list),
                                            exp |-> now + Expiration(last.ttl)]

\* C10 witness: BigCache refused the entry and Redis took it.
C10_Witness ==
    /\ Called /\ last.set.calls = 1
    /\ last.set.l1Tried /\ ~last.set.l1Ok
    /\ last.set.l2Tried /\ last.set.l2Ok
    /\ ~L1Has(l1, last.key) /\ L2Has(l2, last.key, now)

\* C11: Manager.Delete, and InvalidateCache through it, attempts the deletion
\* on every enabled tier whatever happened on the other one (the Redis key is
\* deleted even when BigCache held no entry or refused), leaves no entry in a
\* tier that answered, and returns nil.
C11_DeleteEveryTier ==
    last.op = "Delete" =>
        /\ last.set.l1Tried = l1Enabled
        /\ last.set.l2Tried = l2Enabled
        /\ last.set.errNil
        /\ l1Enabled => ~L1Has(l1, last.key)
        /\ (l2Enabled /\ last.up) => l2[last.key] = NoL2

\* BigCache had no entry to delete, and the Redis key was deleted all the same.
C11_Witness ==
    /\ last.op = "Delete"
    /\ last.set.l1Tried /\ ~last.set.l1Ok
    /\ last.set.l2Tried /\ last.set.l2Ok
    /\ last.l2Had

\* ------------------------------------------------------------ retry claims
\* The n-th answer of client.Get is a non-empty body without an error.
GoodAnswer(n) == plan[n].err = NilErr /\ plan[n].body # NoBody

\* The invocation at which the planned answers are first good (0: never).
FirstSuccess ==
    IF \E n \in 1..RetryBound : GoodAnswer(n)
    THEN CHOOSE n \in 1..RetryBound : GoodAnswer(n) /\ \A i \in 1..(n - 1) : ~GoodAnswer(i)
    ELSE 0

Returned == rpc = "done"

\* C13: when client.Get fails (an error or an empty body) at its first N-1
\* invocations and answers a non-empty body at the N-th, N <= MaxRetries, and
\* the context is not cancelled, FetchWithRetry returns that body and a nil
\* error after exactly N invocations; and client.Get is never invoked more
\* than MaxRetries times.
C13_RetrySuccess ==
    /\ calls <= IF config.MaxRetries > 0 THEN config.MaxRetries ELSE 0
    /\ (Returned /\ ~ctxDone /\ FirstSuccess \in 1..config.MaxRetries) =>
          /\ calls = FirstSuccess
          /\ ret.body = plan[FirstSuccess].body
          /\ ret.body # NoBody
          /\ ret.err.kind = "nil"

\* The default configuration: an error, then an empty body, then a body.
C13_Witness ==
    /\ Returned /\ ~ctxDone
    /\ config = DefaultRetryConfig
    /\ plan[1].err # NilErr
    /\ plan[2] = [body |-> NoBody, err |-> NilErr]
    /\ FirstSuccess = 3
    /\ calls = 3 /\ ret.body = 3

\* C14: when the context is done while FetchWithRetry waits between two
\* attempts, the call returns without invoking client.Get again, with a nil
\* body and the cancellation error, which wraps ctx.Err() and not the error
\* of the last attempt.
C14_CancelDuringWait ==
    /\ [](ret.err.kind = "cancelled" =>
            /\ Returned
            /\ ret.body = NoBody
            /\ ret.err.wraps = CtxErr
            /\ calls = Len(waits))
    /\ [][(rpc = "wait" /\ ctxDone) =>
            /\ rpc' = "done"
            /\ calls' = calls
            /\ ret'.err.kind = "cancelled"
            /\ ret'.err.wraps # lastErr]_vars

\* Cancelled in the wait after a failed attempt, with attempts left and a
\* good answer ready for the next one.
C14_Witness ==
    /\ Returned
    /\ ret.err.kind = "cancelled"
    /\ calls >= 1 /\ calls < config.MaxRetries
    /\ lastErr = OpErr(calls)
    /\ GoodAnswer(calls + 1)

\* The error returned by the last invocation made (nil when it returned
\* none, or when no invocation was made).
LastAttemptErr == IF calls >= 1 THEN plan[calls].err ELSE NilErr

\* C15: when every one of the MaxRetries attempts fails, FetchWithRetry
\* returns a nil body and one error that names MaxRetries and wraps what the
\* last attempt returned as its error; that error is returned only after
\* MaxRetries failed attempts.
C15_Exhaustion ==
    /\ (Returned /\ ret.err.kind = "exhausted") =>
          /\ ret.body = NoBody
          /\ ret.err.count = config.MaxRetries
          /\ ret.err.wraps = LastAttemptErr
          /\ calls = (IF config.MaxRetries > 0 THEN config.MaxRetries ELSE 0)
          /\ \A n \in 1..calls : ~GoodAnswer(n)
    /\ (Returned /\ ~ctxDone /\ config.MaxRetries >= 1
           /\ \A n \in 1..config.MaxRetries : ~GoodAnswer(n)) =>
          ret.err.kind = "exhausted"

\* Three failed attempts under the default configuration; the error of the
\* third one is the cause.
C15_Witness ==
    /\ Returned
    /\ config = DefaultRetryConfig
    /\ ret.err.kind = "exhausted"
    /\ plan[1].err = OpErr(1)
    /\ plan[3].err = OpErr(3)
    /\ ret.err.wraps = OpErr(3)
    /\ ret.err.count = 3

\* ------------------------------------------------------------ startup claim
\* C12: when the initialisation of L1 fails NewManager returns an error and
\* main exits fatally, nothing being served; when the Redis ping fails
\* NewManager succeeds with L2 disabled, and no later Get, Set or Delete
\* sends a command through the Redis client or changes a Redis key: they work
\* on L1 alone.
C12_StartupTiers ==
    /\ (mainPc # "boot" /\ boot.cacheEnabled /\ ~boot.l1InitOk) =>
          (mainPc = "fatal" /\ \A p \in Procs : callers[p] = NoCall)
    /\ (mainPc # "boot" /\ ~(boot.cacheEnabled /\ ~boot.l1InitOk)) =>
          (mainPc = "running" /\ l1Enabled = boot.cacheEnabled)
    /\ (mainPc = "running" /\ boot.redisEnabled /\ ~boot.pingOk) =>
          (~l2Enabled /\ ~l2Touched /\ l2 = EmptyL2)

\* Redis did not answer the ping and answers now; a Set has written L1 only.
C12_Witness ==
    /\ mainPc = "running"
    /\ boot.redisEnabled /\ ~boot.pingOk
    /\ l2Up
    /\ last.op = "Set"
    /\ L1Has(l1, last.key)
    /\ l2 = EmptyL2

\* ------------------------------------------------------------ warmup claims
InFlight == Cardinality({ p \in Paths : wpc[p] = "fetch" })

\* C16: with the ten paths of hotPlatforms and a semaphore of capacity 3, at
\* most 3 warmup GETs are in flight at any time, no path is requested twice,
\* and when warmUpCacheAsync returns every path was requested exactly once.
C16_WarmupBound ==
    /\ Len(HotPlatforms) = 10 /\ Cardinality(Paths) = 10
    /\ InFlight <= 3
    /\ sem = InFlight
    /\ \A p \in Paths : attempts[p] <= 1
    /\ \A p \in Paths : wpc[p] \in {"fetch", "done"} => attempts[p] = 1
    /\ warmPc = "returned" => \A p \in Paths : attempts[p] = 1

\* Three GETs in flight, and a goroutine held back by the semaphore.
C16_Witness ==
    /\ InFlight = 3
    /\ \E p \in Paths : wpc[p] = "queued"
    /\ \E p \in Paths : wpc[p] = "done"

\* The step ends a GET of path p with a failure.
FailedReturn(p) == wpc[p] = "fetch" /\ wpc'[p] = "done" /\ wlast' = "fail"

\* C17: as long as every warmup GET returns, a failed GET gives its slot back
\* and every other path is still requested; warmUpCacheAsync, started once by
\* main, logs its summary and returns (unless the process exits first), with
\* every path requested, and does not run again.
C17_WarmupTerminates ==
    /\ [][\A p \in Paths : FailedReturn(p) => (sem' = sem - 1 /\ sem' = InFlight')]_vars
    /\ []((warmPc = "returned") => \A p \in Paths : attempts[p] = 1 /\ wpc[p] = "done")
    /\ (warmPc = "unstarted") ~> (warmPc = "returned" \/ ~Alive)
    /\ [](starts <= 1)
    /\ [][warmPc = "returned" => warmPc' = "returned"]_vars
    /\ [][warmPc # "unstarted" => warmPc' # "sleep" \/ warmPc = "sleep"]_vars

\* The summary is logged although the GET that returned last had failed.
C17_Witness ==
    /\ warmPc = "returned"
    /\ wlast = "fail"
    /\ starts = 1
    /\ sem = 0
    /\ Alive

\* C18, as claimed: a warmup GET is issued only once the server accepts
\* connections.
C18_AsClaimed ==
    [][\A p \in Paths : attempts'[p] > attempts[p] => mainPc = "listening"]_vars

\* ------------------------------------------------------------ handler claims
\* Some tier holds an entry.
CacheHolds == \E k \in Keys : L1Has(l1, k) \/ L2Has(l2, k, now)

\* The second of the last two requests follows the first for the same path
\* and does not ask for a refresh.
Repeat ==
    /\ Len(hlast) = 2
    /\ hlast[1].status = 200
    /\ hlast[2].path = hlast[1].path
    /\ ~hlast[2].noCache

\* C19, as claimed: once a warmup GET was answered with success the tiers
\* hold an entry, and the client request that follows for the path is served
\* without a fetch from the platform.
C19_AsClaimed ==
    /\ (Len(hlast) >= 1 /\ hlast[Len(hlast)].by = "warmup" /\ hlast[Len(hlast)].status = 200)
          => CacheHolds
    /\ (Repeat /\ hlast[1].by = "warmup" /\ hlast[2].by = "client")
          => hlast[2].upstream = 0

\* C20, as claimed: a handler serves a request through Fetcher.GetData, and
\* a request repeated for a path, without cache=false, makes no request to
\* the platform.
C20_AsClaimed ==
    /\ \A i \in 1..Len(hlast) : hlast[i].getData = 1
    /\ (Repeat /\ hlast[1].by = "client" /\ hlast[2].by = "client")
          => (hlast[2].upstream = 0 /\ hlast[2].fromCache)

\* C21, as claimed: a successful response reports fromCache = true exactly
\* when its records were read from the cache, and fromCache = false exactly
\* when they were fetched from the platform during the request.
C21_AsClaimed ==
    \A i \in 1..Len(hlast) :
        hlast[i].status = 200 =>
            /\ hlast[i].fromCache <=> hlast[i].upstream = 0
            /\ ~hlast[i].fromCache <=> hlast[i].upstream > 0

\* ------------------------------------------------------------ retry delays and outcomes
Min(a, b) == IF a < b THEN a ELSE b

\* C26: the wait started after the k-th failed attempt, k = 1..MaxRetries-1,
\* lasts min(k * InitialDelay, MaxDelay); the delays never decrease and never
\* exceed MaxDelay; a wait is started only right after a failed attempt that
\* is not the last one, so none follows the final attempt.
C26_LinearBackoff ==
    /\ \A k \in 1..Len(waits) :
           /\ k <= config.MaxRetries - 1
           /\ waits[k] = Min(k * config.InitialDelay, config.MaxDelay)
           /\ waits[k] <= config.MaxDelay
           /\ k > 1 => waits[k - 1] <= waits[k]
    /\ Len(waits) <= calls
    /\ rpc = "wait" => Len(waits) = calls /\ lastErr = plan[calls].err /\ ~GoodAnswer(calls)
    /\ calls > 0 /\ calls = config.MaxRetries => rpc # "wait" /\ Len(waits) = calls - 1

\* Four attempts failed; the third wait was cut down to MaxDelay.
C26_Witness ==
    /\ rpc = "done" /\ ret.err.kind = "exhausted"
    /\ calls = 4
    /\ config.InitialDelay = 2
    /\ waits = <<2, 4, 5>>

\* C29, as claimed: FetchWithRetry returns a non-empty body with a nil
\* error, or a nil body with an error that wraps a non-nil cause, and has
\* invoked the operation at least once before it returns an error.
C29_AsClaimed ==
    rpc = "done" =>
        /\ \/ ret.body # NoBody /\ ret.err.kind = "nil"
           \/ ret.body = NoBody /\ ret.err.kind # "nil" /\ ret.err.wraps # NilErr
        /\ ret.err.kind # "nil" => calls >= 1

\* ------------------------------------------------------------ what the cache holds
\* The bytes are the serialization of a non-empty record list.
NonEmptyListBytes(b) == \E l \in Lists : Len(l) > 0 /\ MarshalOk(l) /\ b = Marshal(l)

\* The step is a step of a GetData call on k whose data source succeeded
\* with a non-empty list, and b is that list serialized.
FetchedNow(k, b) ==
    \E p \in One :
        LET r == callers'[p].rec
        IN  /\ r.op = "GetData" /\ r.key = k
            /\ r.srcCalls = 1
            /\ r.src.err = "" /\ Len(r.src.list) > 0
            /\ r.set.calls = 1
            /\ b = Marshal(r.src.list)

\* The step is the promotion write of a GetData call on k, and b is the
\* value its Manager.Get read from L2.
PromotedNow(k, b) ==
    \E p \in One :
        /\ callers[p].pc = "promote"
        /\ callers[p].rec.op = "GetData" /\ callers[p].rec.key = k
        /\ b = callers[p].val

\* C30: with GetData as the only writer, every value a tier holds is the
\* serialization of a non-empty list; a value enters a tier only as the
\* serialized list a successful data source call for that key just returned
\* (or, for L1, as the copy of the value L2 holds for the key); and every
\* response with fromCache=true carries at least one record, total being the
\* number of records.
C30_OnlyFetchedLists ==
    /\ [](\A k \in Keys :
            /\ L1Has(l1, k) => NonEmptyListBytes(l1[k].val)
            /\ l2[k] # NoL2 => NonEmptyListBytes(l2[k].val))
    /\ [](last.op = "GetData" /\ ~last.resp.nil /\ last.resp.fromCache =>
            /\ Len(last.resp.data) >= 1
            /\ last.resp.total = Len(last.resp.data))
    /\ [][\A k \in Keys :
            /\ (l2'[k] # l2[k] /\ l2'[k] # NoL2) => FetchedNow(k, l2'[k].val)
            /\ (l1'[k] # l1[k] /\ L1Has(l1', k)) =>
                   \/ FetchedNow(k, l1'[k].val)
                   \/ PromotedNow(k, l1'[k].val)]_vars

\* A response served from the cache, from a value a GetData call stored.
C30_Witness ==
    /\ last.op = "GetData" /\ ~last.resp.nil /\ last.resp.fromCache
    /\ last.resp.total = 1
    /\ \E k \in Keys : L1Has(l1, k) /\ l2[k] # NoL2 /\ l1[k].val = l2[k].val

\* ------------------------------------------------------------ promotion and expiry
\* C28, as claimed: a value Manager.Get copied from L2 into L1 is not served
\* from L1 once the TTL of the L2 entry it was copied from has run out.
C28_AsClaimed ==
    (last.op = "Get" /\ last.get.tier = "L1" /\ promo[last.key].set) =>
        now < promo[last.key].exp

\* ------------------------------------------------------------ concurrent callers: claims
AllDone == \A p \in Procs : callers[p].pc = "done"

\* The GetData calls that saw the cache miss.
MissedGetData == { p \in Procs : callers[p].rec.op = "GetData" /\ callers[p].rec.get.tier = "miss" }

\* The caller is past fetchFunc.
PastFetch(p) == callers[p].pc \in {"l1Set", "l2Set", "done"}

\* The calls of Manager.Set the caller made that have returned.
Sets(p) == IF callers[p].rec.set.calls = 1 /\ callers[p].pc = "done" THEN 1 ELSE 0

\* The caller returned the list its data source gave it.
ReturnedFresh(p) ==
    /\ callers[p].pc = "done"
    /\ callers[p].rec.srcCalls = 1
    /\ ~callers[p].rec.resp.nil

\* Every caller that saw the miss calls the data source itself, once, and
\* is never held back by another caller.
OwnFetch ==
    \A p \in MissedGetData :
        /\ callers[p].rec.srcCalls = IF PastFetch(p) THEN 1 ELSE 0
        /\ callers[p].pc # "done" => ENABLED Step(p)

\* C24, as claimed: every concurrent GetData call that saw the miss invokes
\* the data source once, and performs its own Set whenever the list it
\* returns is not empty.
C24_AsClaimed ==
    /\ OwnFetch
    /\ \A p \in MissedGetData :
           (ReturnedFresh(p) /\ Len(callers[p].rec.resp.data) > 0) => Sets(p) = 1

\* C24: every concurrent GetData call that saw the miss invokes the data
\* source itself, exactly once, whatever the other callers do and without
\* waiting for them; it performs its own Manager.Set exactly when the
\* source returned a non-empty list that serializes, and none otherwise.
C24_NoMissDedup ==
    /\ OwnFetch
    /\ \A p \in MissedGetData :
           callers[p].pc = "done" =>
               Sets(p) = IF ReturnedFresh(p) /\ Len(callers[p].rec.resp.data) > 0
                            /\ MarshalOk(callers[p].rec.resp.data)
                         THEN 1 ELSE 0

\* Two GetData calls missed the same key; each called the source and wrote
\* the cache itself.
C24_Witness ==
    /\ AllDone
    /\ MissedGetData = Procs
    /\ \A p \in Procs : callers[p].rec.srcCalls = 1 /\ Sets(p) = 1

\* C25, as claimed: once every concurrent Set / GetData populate on the key
\* has returned, all tier writes accepted, L1 and L2 hold the same value.
C25_AsClaimed ==
    (/\ AllDone
     /\ \E p \in Procs : Sets(p) = 1
     /\ \A p \in Procs : callers[p].rec.op # "none" =>
                             /\ callers[p].rec.op \in {"Set", "GetData"}
                             /\ Sets(p) = 1
                             /\ callers[p].rec.set.l1Ok /\ callers[p].rec.set.l2Ok) =>
        \A k \in Keys : l1[k].val = l2[k].val

\* A Get of the key would be answered by a tier.
Held(k) == (l1Enabled /\ L1Has(l1, k)) \/ (l2Enabled /\ Answers /\ L2Has(l2, k, now))

\* C27, as claimed: once a Delete and the Gets running with it have
\* returned, no Set or GetData having run, a further Get misses.
C27_AsClaimed ==
    (/\ AllDone
     /\ \E p \in Procs : callers[p].rec.op = "Delete"
     /\ \A p \in Procs : callers[p].rec.op \in {"Delete", "Get", "none"}) =>
        \A k \in Keys : ~Held(k)

\* ------------------------------------------------------------ pool claims
\* The guard of a release, by kind of container.
Guard(kind) == IF kind = "buffer" THEN 512 * 1024 ELSE 200

\* What New allocates, by kind of container.
PreSized(kind) == IF kind = "buffer" THEN 256 * 1024 ELSE 50

PoolOf(kind) == IF kind = "buffer" THEN bufPool ELSE listPool

\* C22, as claimed: a container is pooled only if its capacity is below the
\* guard (512*1024 bytes, 200 records).
C22_AsClaimed ==
    /\ plast.op = "release" => (plast.pooled <=> plast.cap < Guard(plast.kind))
    /\ \A kind \in {"buffer", "list"} : \A x \in BagToSet(PoolOf(kind)) : x.cap < Guard(kind)

\* C22: a release pools a container exactly when its capacity is at most the
\* guard (512*1024 bytes, 200 records); a larger container is discarded, no
\* pool ever holds one, and an acquire, also right after the release of an
\* oversized container, returns a container of at most the guard capacity.
C22_ReleaseGuard ==
    /\ plast.op = "release" => (plast.pooled <=> plast.cap <= Guard(plast.kind))
    /\ \A kind \in {"buffer", "list"} : \A x \in BagToSet(PoolOf(kind)) : x.cap <= Guard(kind)
    /\ plast.op = "acquire" => plast.cap <= Guard(plast.kind)

\* An acquire that follows the release of an oversized buffer, with a buffer
\* of exactly the guard capacity waiting in the pool.
C22_Witness ==
    /\ plast.op = "acquire" /\ plast.kind = "buffer"
    /\ plast.afterDiscard
    /\ plast.cap <= 512 * 1024
    /\ \E x \in BagToSet(bufPool) : x.cap = 512 * 1024

\* C23: a container returned by AcquireResponseBuffer or AcquireHotDataList
\* has length 0, whatever its length was in the pool; it was taken out of
\* the pool, or it is newly allocated with the pre-sized capacity (256 KiB,
\* 50 records), which is the case whenever the pool is empty.
C23_AcquireEmpty ==
    /\ [](plast.op = "acquire" =>
            /\ plast.len = 0
            /\ plast.fresh => (plast.cap = PreSized(plast.kind) /\ plast.lenWas = 0)
            /\ plast.wasEmpty => plast.fresh)
    /\ [][(plast'.op = "acquire" /\ ~plast'.fresh /\ <<bufPool, listPool>>' # <<bufPool, listPool>>) =>
            LET x == [cap |-> plast'.cap, len |-> plast'.lenWas]
            IN  IF plast'.kind = "buffer"
                THEN BagIn(x, bufPool) /\ bufPool' = bufPool (-) SetToBag({x})
                ELSE BagIn(x, listPool) /\ listPool' = listPool (-) SetToBag({x})]_vars

\* A list pooled full comes back with length 0.
C23_Witness ==
    /\ plast.op = "acquire" /\ plast.kind = "list"
    /\ ~plast.fresh
    /\ plast.lenWas = plast.cap
    /\ plast.len = 0

====
